---- MODULE Spec2Model ----
(***************************************************************************)
(* A model of the appointment scheduler of src/doctors_office.py: the     *)
(* classes Doctor, Patient and DoctorOffice, with the helpers of          *)
(* src/doctors_office_utilities.py.                                       *)
(*                                                                         *)
(* A Doctor or Patient object is named by a string; its constructor       *)
(* arguments are the lookup operators below.  A datetime is a number of   *)
(* hours counted from a Monday 00:00.  A Python dict is a sequence of     *)
(* entries in insertion order (a bucket of the schedule) or a function    *)
(* (the registries and the schedule itself, whose order is only read      *)
(* through sorted()).  Every method call is one action; it records the    *)
(* call and its outcome in the variable call, which the caller takes      *)
(* before the next call.                                                  *)
(***************************************************************************)
EXTENDS Integers, Sequences, FiniteSets, TLC

\* ------------------------------------------------------------------ inputs

\* The Doctor objects the callers construct: Doctor(name, id_doc, office).
DoctorObjs == {"d1a", "d1b", "d2"}

\* The Patient objects the callers construct: Patient(name, id, primary).
PatientObjs == {"p1", "p2"}

\* The datetimes the callers use, in hours from Monday 00:00 of a first
\* week: Tuesday 12:00 of that week and Monday 12:00 of the week after.
Times == {36, 180}

\* The values of to_schedule_list's week argument: <<>> is None, <<w>> a
\* datetime w (a Wednesday 02:00 of the first week).
Weeks == {<<>>, <<50>>}

\* The largest number of cancellations a Patient object accumulates.
MaxCancellations == 1

\* The value None.
None == "None"

\* ------------------------------------------------------- Doctor and Patient

Doctor_name(doctor) ==
    CASE doctor = "d1a" -> "Nick"
      [] doctor = "d1b" -> "Nick"
      [] doctor = "d2"  -> "Nick"

doctor_get_id(doctor) ==
    CASE doctor = "d1a" -> 1
      [] doctor = "d1b" -> 1
      [] doctor = "d2"  -> 2

get_office(doctor) ==
    CASE doctor = "d1a" -> "A10"
      [] doctor = "d1b" -> "A11"
      [] doctor = "d2"  -> "A11"

Patient_name(patient) ==
    CASE patient = "p1" -> "Jp"
      [] patient = "p2" -> "Lauren"

patient_get_id(patient) ==
    CASE patient = "p1" -> 1
      [] patient = "p2" -> 2

\* The primary doctor of p2 is a doctor who has no slot at this office.
get_primary_doctor(patient) ==
    CASE patient = "p1" -> 1
      [] patient = "p2" -> 3

\* The ids a doctor_id argument is drawn from.
DoctorIds == {doctor_get_id(d) : d \in DoctorObjs}

\* Python's order on the room names (str.__lt__).
RoomLess(a, b) == a = "A10" /\ b = "A11"

\* -------------------------------------------------------------------- state

VARIABLES
    doctors,        \* DoctorOffice._doctors: doctor id -> Doctor object
    patients,       \* DoctorOffice._patients: patient id -> Patient object
    schedule,       \* DoctorOffice._schedule: datetime -> bucket
    cancellations,  \* Patient._cancellations of every Patient object
    call            \* the last method call and how it ended

vars == <<doctors, patients, schedule, cancellations, call>>

get_cancellation_num(patient) == cancellations[patient]

\* The number of cancellations at which a patient leaves the registry.
CancellationLimit == 10

\* The counts a Patient object comes to the office with: a new Patient has
\* none, and one that update_cancellations has been called on since then may
\* be one short of the count at which the office removes it.
FirstCounts == {0, CancellationLimit - 1}

\* How a call ended: a returned value or the exception that left it.
Returns == {"True", "False", "None", "list"}
Faults == {"AttributeError", "KeyError"}

\* The record of a call.  who is the Doctor or Patient object passed (of the
\* Doctor passed to cancel_appointment_doctor, doctor_id is the id, which
\* is all the method reads), week the week argument, value the list
\* returned when ret = "list".
Call(op, time_point, doctor_id, who, week, ret, value) ==
    [op |-> op, time_point |-> time_point, doctor_id |-> doctor_id,
     who |-> who, week |-> week, ret |-> ret, value |-> value]

\* No call is under way and no outcome is pending.
NoCall == Call("none", 0, 0, None, <<>>, "None", <<>>)

\* The caller has taken the outcome of its last call and makes the next one:
\* the calls are made one after the other, by a single thread.
Ready == call = NoCall

\* --------------------------------------------------------- dict operations

\* A function without the key k (dict.pop on the schedule).
DictPop(f, k) == [x \in (DOMAIN f) \ {k} |-> f[x]]

\* A function with f[k] = v (dict.__setitem__ on a registry or the schedule).
DictSet(f, k, v) == [x \in (DOMAIN f) \cup {k} |-> IF x = k THEN v ELSE f[x]]

\* A slot of a bucket: the room key and the tuple (doctor, patient).
Slot(room, doctor, patient) == [room |-> room, doctor |-> doctor, patient |-> patient]

\* The rooms that are keys of a bucket.
Rooms(bucket) == {bucket[i].room : i \in 1..Len(bucket)}

\* The position of the key room in a bucket that has it.
IndexOf(bucket, room) == CHOOSE i \in 1..Len(bucket) : bucket[i].room = room

\* bucket[room] = (doctor, patient) where clearing a slot is a pop of its
\* key: the slot of a patient who cancels leaves the table.
BucketSet_pops_cleared(bucket, room, doctor, patient) ==
    IF room \in Rooms(bucket)
    THEN IF patient = None
         THEN SubSeq(bucket, 1, IndexOf(bucket, room) - 1)
                  \o SubSeq(bucket, IndexOf(bucket, room) + 1, Len(bucket))
         ELSE [bucket EXCEPT ![IndexOf(bucket, room)] = Slot(room, doctor, patient)]
    ELSE Append(bucket, Slot(room, doctor, patient))

\* bucket[room] = (doctor, patient): an existing key keeps its place in the
\* iteration order, a new key goes last.
BucketSet(bucket, room, doctor, patient) ==
    IF room \in Rooms(bucket)
    THEN [bucket EXCEPT ![IndexOf(bucket, room)] = Slot(room, doctor, patient)]
    ELSE Append(bucket, Slot(room, doctor, patient))

\* bucket.pop(room)
BucketPop(bucket, room) ==
    LET i == IndexOf(bucket, room)
    IN  SubSeq(bucket, 1, i - 1) \o SubSeq(bucket, i + 1, Len(bucket))

\* The empty office.
Init ==
    /\ doctors = << >>
    /\ patients = << >>
    /\ schedule = << >>
    /\ cancellations = [p \in PatientObjs |-> 0]
    /\ call = NoCall

\* The empty office, and Patient objects that come to it with the counts of
\* FirstCounts.
InitNearLimit ==
    /\ doctors = << >>
    /\ patients = << >>
    /\ schedule = << >>
    /\ cancellations \in [PatientObjs -> FirstCounts]
    /\ call = NoCall

\* ------------------------------------------------------------ registration

\* add_doctor with the assignment outside the test: a doctor with a known
\* id replaces the registered one.
add_doctor_overwrites(doctor) ==
    /\ Ready
    /\ LET new_id == doctor_get_id(doctor)
       IN  /\ doctors' = DictSet(doctors, new_id, doctor)
           /\ call' = Call("add_doctor", 0, 0, doctor, <<>>,
                           IF new_id \notin DOMAIN doctors THEN "True" ELSE "False",
                           <<>>)
           /\ UNCHANGED <<patients, schedule, cancellations>>

add_doctor(doctor) ==
    /\ Ready
    /\ LET new_id == doctor_get_id(doctor)
       IN  IF new_id \notin DOMAIN doctors
           THEN /\ doctors' = DictSet(doctors, new_id, doctor)
                /\ call' = Call("add_doctor", 0, 0, doctor, <<>>, "True", <<>>)
                /\ UNCHANGED <<patients, schedule, cancellations>>
           ELSE /\ call' = Call("add_doctor", 0, 0, doctor, <<>>, "False", <<>>)
                /\ UNCHANGED <<doctors, patients, schedule, cancellations>>

\* add_patient that reports whether the id was new and leaves the registry as
\* it is either way.
add_patient_forgets(patient) ==
    /\ Ready
    /\ call' = Call("add_patient", 0, 0, patient, <<>>,
                    IF patient_get_id(patient) \notin DOMAIN patients
                    THEN "True" ELSE "False", <<>>)
    /\ UNCHANGED <<doctors, patients, schedule, cancellations>>

add_patient(patient) ==
    /\ Ready
    /\ LET new_id == patient_get_id(patient)
       IN  IF new_id \notin DOMAIN patients
           THEN /\ patients' = DictSet(patients, new_id, patient)
                /\ call' = Call("add_patient", 0, 0, patient, <<>>, "True", <<>>)
                /\ UNCHANGED <<doctors, schedule, cancellations>>
           ELSE /\ call' = Call("add_patient", 0, 0, patient, <<>>, "False", <<>>)
                /\ UNCHANGED <<doctors, patients, schedule, cancellations>>

\* ------------------------------------------------------------- availability

\* _is_doc_available with the return inside the loop: the answer is given by
\* the first slot of the bucket.
_is_doc_available_first_slot(sched, time_point, doctor_id) ==
    IF time_point \notin DOMAIN sched
    THEN TRUE
    ELSE \A i \in 1..Len(sched[time_point]) :
            i = 1 => doctor_id # doctor_get_id(sched[time_point][i].doctor)

\* DoctorOffice._is_doc_available on the schedule sched.
_is_doc_available(sched, time_point, doctor_id) ==
    IF time_point \notin DOMAIN sched
    THEN TRUE
    ELSE \A i \in 1..Len(sched[time_point]) :
            doctor_id # doctor_get_id(sched[time_point][i].doctor)

schedule_doctor_availability(time_point, doctor_id) ==
    /\ Ready
    /\ IF doctor_id \notin DOMAIN doctors
       THEN \* self._doctors[doctor_id] raises before anything is written
            /\ call' = Call("schedule_doctor_availability", time_point, doctor_id,
                            None, <<>>, "KeyError", <<>>)
            /\ UNCHANGED <<doctors, patients, schedule, cancellations>>
       ELSE LET doctor == doctors[doctor_id]
                office_name == get_office(doctor)
                created == IF time_point \notin DOMAIN schedule
                           THEN DictSet(schedule, time_point, << >>)
                           ELSE schedule
            IN  IF _is_doc_available(created, time_point, doctor_id)
                THEN /\ schedule' = DictSet(created, time_point,
                           BucketSet(created[time_point], office_name, doctor, None))
                     /\ call' = Call("schedule_doctor_availability", time_point,
                                     doctor_id, None, <<>>, "True", <<>>)
                     /\ UNCHANGED <<doctors, patients, cancellations>>
                ELSE /\ schedule' = IF Len(created[time_point]) = 0
                                    THEN DictPop(created, time_point)
                                    ELSE created
                     /\ call' = Call("schedule_doctor_availability", time_point,
                                     doctor_id, None, <<>>, "False", <<>>)
                     /\ UNCHANGED <<doctors, patients, cancellations>>

\* ------------------------------------------------------------------ booking

\* The smallest number of a non-empty set of numbers.
Min(S) == CHOOSE x \in S : \A y \in S : x <= y

\* key == patient for a key of _patients (an int) and a Patient object:
\* class Patient defines neither __eq__ nor __hash__, so the comparison is
\* by identity and an int is never the object.
KeyIsPatient(key, patient) == FALSE

\* "patient in self._patients" of book_patient: the Patient object itself
\* is looked up among the keys of the registry.
patient_in_patients(patient) ==
    \E key \in DOMAIN patients : KeyIsPatient(key, patient)

\* _schedule_with_other_doctor that takes the last room of available_app.
_schedule_with_other_doctor_last(time_point, available_app, patient) ==
    LET room == available_app[Len(available_app)]
        doctor == schedule[time_point][IndexOf(schedule[time_point], room)].doctor
    IN  DictSet(schedule, time_point,
                BucketSet(schedule[time_point], room, doctor, patient))

\* DoctorOffice._schedule_with_other_doctor: the schedule after it.
_schedule_with_other_doctor(time_point, available_app, patient) ==
    LET room == available_app[1]
        doctor == schedule[time_point][IndexOf(schedule[time_point], room)].doctor
    IN  DictSet(schedule, time_point,
                BucketSet(schedule[time_point], room, doctor, patient))

\* The rooms of all the slots of a bucket, in iteration order: the list
\* book_patient would collect without its test for an open slot.
RECURSIVE OpenRooms_untested(_)
OpenRooms_untested(bucket) ==
    IF bucket = << >>
    THEN << >>
    ELSE <<Head(bucket).room>> \o OpenRooms_untested(Tail(bucket))

\* The rooms of the open slots of a bucket, in iteration order.
RECURSIVE OpenRooms(_)
OpenRooms(bucket) ==
    IF bucket = << >>
    THEN << >>
    ELSE IF Head(bucket).patient = None
         THEN <<Head(bucket).room>> \o OpenRooms(Tail(bucket))
         ELSE OpenRooms(Tail(bucket))

book_patient(time_point, patient) ==
    /\ Ready
    /\ LET primary_id == get_primary_doctor(patient)
       IN  IF time_point \notin DOMAIN schedule
           THEN /\ call' = Call("book_patient", time_point, 0, patient, <<>>,
                                "False", <<>>)
                /\ UNCHANGED <<doctors, patients, schedule, cancellations>>
           ELSE LET bucket == schedule[time_point]
                    \* the slots at which the loop would return
                    primary == {i \in 1..Len(bucket) :
                                   /\ doctor_get_id(bucket[i].doctor) = primary_id
                                   /\ bucket[i].patient = None
                                   /\ patient_in_patients(patient)}
                    available_appointments == OpenRooms(bucket)
                IN  IF primary # {}
                    THEN /\ schedule' = DictSet(schedule, time_point,
                               BucketSet(bucket, bucket[Min(primary)].room,
                                         bucket[Min(primary)].doctor, patient))
                         /\ call' = Call("book_patient", time_point, 0, patient,
                                         <<>>, "True", <<>>)
                         /\ UNCHANGED <<doctors, patients, cancellations>>
                    ELSE IF Len(available_appointments) > 0
                    THEN /\ schedule' = _schedule_with_other_doctor(
                               time_point, available_appointments, patient)
                         /\ call' = Call("book_patient", time_point, 0, patient,
                                         <<>>, "True", <<>>)
                         /\ UNCHANGED <<doctors, patients, cancellations>>
                    ELSE /\ call' = Call("book_patient", time_point, 0, patient,
                                         <<>>, "False", <<>>)
                         /\ UNCHANGED <<doctors, patients, schedule, cancellations>>

\* ------------------------------------------------- cancellation by a patient

cancel_appointment_patient(time_point, patient) ==
    /\ Ready
    /\ \E first \in FirstCounts :
          /\ first <= get_cancellation_num(patient)
          /\ get_cancellation_num(patient) < first + MaxCancellations
    /\ IF time_point \notin DOMAIN schedule
          THEN /\ call' = Call("cancel_appointment_patient", time_point, 0,
                               patient, <<>>, "False", <<>>)
               /\ UNCHANGED <<doctors, patients, schedule, cancellations>>
          ELSE LET bucket == schedule[time_point]
                   \* the slots at which the loop ends: info[PATIENT].get_id()
                   \* raises on an open slot, and returns on the patient's slot
                   stops == {i \in 1..Len(bucket) :
                                \/ bucket[i].patient = None
                                \/ patient_get_id(bucket[i].patient)
                                       = patient_get_id(patient)}
               IN  IF stops = {}
                   THEN /\ call' = Call("cancel_appointment_patient", time_point,
                                        0, patient, <<>>, "False", <<>>)
                        /\ UNCHANGED <<doctors, patients, schedule, cancellations>>
                   ELSE IF bucket[Min(stops)].patient = None
                   THEN /\ call' = Call("cancel_appointment_patient", time_point,
                                        0, patient, <<>>, "AttributeError", <<>>)
                        /\ UNCHANGED <<doctors, patients, schedule, cancellations>>
                   ELSE LET info == bucket[Min(stops)]
                            removed == get_cancellation_num(patient) + 1
                                           = CancellationLimit
                            known == patient_get_id(patient) \in DOMAIN patients
                        IN  /\ schedule' = DictSet(schedule, time_point,
                                  BucketSet(bucket, info.room, info.doctor, None))
                            /\ cancellations' =
                                  [cancellations EXCEPT ![patient] = @ + 1]
                            /\ patients' = IF removed /\ known
                                           THEN DictPop(patients, patient_get_id(patient))
                                           ELSE patients
                            \* self._patients.pop raises on a missing key
                            /\ call' = Call("cancel_appointment_patient",
                                            time_point, 0, patient, <<>>,
                                            IF removed /\ ~known THEN "KeyError"
                                                                 ELSE "True", <<>>)
                            /\ UNCHANGED doctors

\* --------------------------------------------------- cancellation by a doctor

\* sorted(S) for a set of datetimes.
RECURSIVE sorted(_)
sorted(S) == IF S = {} THEN << >> ELSE <<Min(S)>> \o sorted(S \ {Min(S)})

\* The first open slot of the loops of _book_cancelled_patient over the
\* dates of sched, as <<date, slot>>, or << >> when there is none.
RECURSIVE FirstOpen(_, _)
FirstOpen(sched, dates) ==
    IF dates = << >>
    THEN << >>
    ELSE LET open == {i \in 1..Len(sched[Head(dates)]) :
                         sched[Head(dates)][i].patient = None}
         IN  IF open # {}
             THEN <<Head(dates), sched[Head(dates)][Min(open)]>>
             ELSE FirstOpen(sched, Tail(dates))

\* _book_cancelled_patient without the test that the patient is in the
\* registry.
_book_cancelled_patient_untested(sched, time_point, patient) ==
    LET dates == sorted({date \in DOMAIN sched : time_point <= date})
        found == FirstOpen(sched, dates)
    IN  IF found = << >>
        THEN [schedule |-> sched, ret |-> "False"]
        ELSE IF patient = None
        THEN [schedule |-> sched, ret |-> "AttributeError"]
        ELSE IF time_point \notin DOMAIN sched
        THEN [schedule |-> sched, ret |-> "KeyError"]
        ELSE [schedule |-> DictSet(sched, time_point,
                              BucketSet(sched[time_point], found[2].room,
                                        found[2].doctor, patient)),
              ret |-> "True"]

\* DoctorOffice._book_cancelled_patient on the schedule sched: the schedule
\* it leaves and how it ends.  The condition of the loop is false at every
\* booked slot; at the first open slot it raises for the patient None, it is
\* false there and at every later open slot for an unregistered patient, and
\* otherwise the loop body runs there.
_book_cancelled_patient(sched, time_point, patient) ==
    LET dates == sorted({date \in DOMAIN sched : time_point <= date})
        found == FirstOpen(sched, dates)
    IN  IF found = << >>
        THEN [schedule |-> sched, ret |-> "False"]
        ELSE IF patient = None
        THEN [schedule |-> sched, ret |-> "AttributeError"]
        ELSE IF patient_get_id(patient) \notin DOMAIN patients
        THEN [schedule |-> sched, ret |-> "False"]
        ELSE IF time_point \notin DOMAIN sched
        THEN \* self._schedule[time_point] of the assignment raises
             [schedule |-> sched, ret |-> "KeyError"]
        ELSE [schedule |-> DictSet(sched, time_point,
                              BucketSet(sched[time_point], found[2].room,
                                        found[2].doctor, patient)),
              ret |-> "True"]

\* The slots of cancel_appointment_doctor's loop that belong to the doctor.
SlotsOfDoctor(time_point, doctor_id) ==
    {i \in 1..Len(schedule[time_point]) :
        doctor_id = doctor_get_id(schedule[time_point][i].doctor)}

\* The schedule once cancel_appointment_doctor has popped the slot info,
\* without the pop of a bucket that this emptied.
Removed_keeps_bucket(time_point, info) ==
    DictSet(schedule, time_point, BucketPop(schedule[time_point], info.room))

\* The schedule once cancel_appointment_doctor has popped the slot info and,
\* if that emptied it, the bucket of time_point.
Removed(time_point, info) ==
    LET popped == BucketPop(schedule[time_point], info.room)
    IN  IF Len(popped) = 0
        THEN DictPop(schedule, time_point)
        ELSE DictSet(schedule, time_point, popped)

cancel_appointment_doctor(time_point, doctor) ==
    /\ Ready
    /\ IF time_point \notin DOMAIN schedule
       THEN /\ call' = Call("cancel_appointment_doctor", time_point,
                            doctor_get_id(doctor), None, <<>>, "False", <<>>)
            /\ UNCHANGED <<doctors, patients, schedule, cancellations>>
       ELSE LET mine == SlotsOfDoctor(time_point, doctor_get_id(doctor))
            IN  IF mine = {}
                THEN \* the loop ends and the method returns nothing
                     /\ call' = Call("cancel_appointment_doctor", time_point,
                                     doctor_get_id(doctor), None, <<>>, "None",
                                     <<>>)
                     /\ UNCHANGED <<doctors, patients, schedule, cancellations>>
                ELSE LET info == schedule[time_point][Min(mine)]
                         booked_other_doctor ==
                             _book_cancelled_patient(Removed(time_point, info),
                                                     time_point, info.patient)
                     IN  /\ schedule' = booked_other_doctor.schedule
                         /\ call' = Call("cancel_appointment_doctor", time_point,
                                         doctor_get_id(doctor), None, <<>>,
                                         booked_other_doctor.ret, <<>>)
                         /\ UNCHANGED <<doctors, patients, cancellations>>

\* ----------------------------------------------------------------- reporting

\* time_point.strftime('%A, %Y-%m-%d'): the weekday's name and the day,
\* counted from the Monday the datetimes are counted from.
WeekdayNames ==
    <<"Monday", "Tuesday", "Wednesday", "Thursday", "Friday", "Saturday", "Sunday">>

strftime_date(time_point) ==
    <<WeekdayNames[((time_point \div 24) % 7) + 1], time_point \div 24>>

\* time_point.strftime('%H:%M'): the datetimes are whole hours.
strftime_time(time_point) == <<time_point % 24, 0>>

create_appointment_dict(date, time, room_name, doctor_name, patient_name) ==
    [Date |-> date, Time |-> time, Room |-> room_name,
     Doctor |-> doctor_name, Patient |-> patient_name]

in_week(date, week) ==
    IF week = << >>
    THEN TRUE
    ELSE LET midnight == (week[1] \div 24) * 24
             weekday == (week[1] \div 24) % 7
             week_start == midnight - 24 * weekday
             \* Sunday 23:59:59, and a date is a whole hour
             week_end == week_start + 6 * 24 + 23
         IN  week_start <= date /\ date <= week_end

_is_doctor_name_unique(doctor) ==
    \A ids \in DOMAIN doctors :
        ~(doctor_get_id(doctor) # ids /\ Doctor_name(doctors[ids]) = Doctor_name(doctor))

\* A record put into a list sorted by 'Room', after the records that do not
\* sort after it (sorted() is stable).
RECURSIVE InsertByRoom(_, _)
InsertByRoom(appointment, appointments) ==
    IF appointments = << >>
    THEN <<appointment>>
    ELSE IF RoomLess(appointment.Room, Head(appointments).Room)
         THEN <<appointment>> \o appointments
         ELSE <<Head(appointments)>> \o InsertByRoom(appointment, Tail(appointments))

\* The records as appended, without the call of sorted.
SortedByRoom_as_appended(appointments) == appointments

\* sorted(appointments, key=lambda k: k['Room'])
RECURSIVE SortedByRoom(_)
SortedByRoom(appointments) ==
    IF appointments = << >>
    THEN << >>
    ELSE InsertByRoom(appointments[Len(appointments)],
                      SortedByRoom(SubSeq(appointments, 1, Len(appointments) - 1)))

\* The record appointments_at builds for a booked slot.
AppointmentOf(time_point, info) ==
    create_appointment_dict(
        strftime_date(time_point), strftime_time(time_point), info.room,
        IF _is_doctor_name_unique(info.doctor)
        THEN <<Doctor_name(info.doctor)>>
        ELSE <<Doctor_name(info.doctor), ToString(doctor_get_id(info.doctor))>>,
        Patient_name(info.patient))

\* What DoctorOffice.appointments_at returns, or the exception that leaves
\* it: info[PATIENT].name raises at the first open slot.
AppointmentsAt(time_point) ==
    IF time_point \notin DOMAIN schedule
    THEN [ret |-> "list", value |-> << >>]
    ELSE LET appointments_of_day == schedule[time_point]
         IN  IF \E i \in 1..Len(appointments_of_day) :
                    appointments_of_day[i].patient = None
             THEN [ret |-> "AttributeError", value |-> << >>]
             ELSE [ret |-> "list",
                   value |-> SortedByRoom(
                       [i \in 1..Len(appointments_of_day) |->
                           AppointmentOf(time_point, appointments_of_day[i])])]

appointments_at(time_point) ==
    /\ Ready
    /\ /\ call' = Call("appointments_at", time_point, 0, None, <<>>,
                       AppointmentsAt(time_point).ret,
                       AppointmentsAt(time_point).value)
       /\ UNCHANGED <<doctors, patients, schedule, cancellations>>

\* What DoctorOffice.to_schedule_list returns over the sorted time_points,
\* or the exception of the first appointments_at that raises.
RECURSIVE ToScheduleList(_, _)
ToScheduleList(time_points, week) ==
    IF time_points = << >>
    THEN [ret |-> "list", value |-> << >>]
    ELSE IF ~in_week(Head(time_points), week)
    THEN ToScheduleList(Tail(time_points), week)
    ELSE LET first == AppointmentsAt(Head(time_points))
             rest == ToScheduleList(Tail(time_points), week)
         IN  IF first.ret # "list" THEN first
             ELSE IF rest.ret # "list" THEN rest
             ELSE [ret |-> "list", value |-> first.value \o rest.value]

to_schedule_list(week) ==
    /\ Ready
    /\ LET full_schedule == ToScheduleList(sorted(DOMAIN schedule), week)
       IN  /\ call' = Call("to_schedule_list", 0, 0, None, week,
                           full_schedule.ret, full_schedule.value)
           /\ UNCHANGED <<doctors, patients, schedule, cancellations>>

\* ------------------------------------------------------------------- claims

\* The slots at time_point, none when the schedule has no such key.
SlotsAt(sched, time_point) ==
    IF time_point \in DOMAIN sched THEN sched[time_point] ELSE << >>

\* The number of slots of a schedule.
RECURSIVE SlotCount(_, _)
SlotCount(sched, dates) ==
    IF dates = {} THEN 0
    ELSE LET date == CHOOSE x \in dates : TRUE
         IN  Len(sched[date]) + SlotCount(sched, dates \ {date})

\* The patient is in the registry.
Registered(patient) == patient_get_id(patient) \in DOMAIN patients

\* The step is the call op(time_point, ...).
IsCall(op, time_point) == call'.op = op /\ call'.time_point = time_point

\* The office is as it was before the step.
SameOffice == UNCHANGED <<doctors, patients, schedule, cancellations>>

\* C1: in every reachable state no two slots at the same time_point
\* reference the same doctor id.
C1_OneSlotPerDoctor ==
    \A time_point \in DOMAIN schedule :
        \A i, j \in 1..Len(schedule[time_point]) :
            i # j => doctor_get_id(schedule[time_point][i].doctor)
                        # doctor_get_id(schedule[time_point][j].doctor)

\* C1 witness: a doctor's cancellation has rebooked its patient and the
\* time_point holds the slots of two doctors.
C1_Witness ==
    /\ call.op = "cancel_appointment_doctor"
    /\ call.ret = "True"
    /\ Len(SlotsAt(schedule, call.time_point)) = 2

\* The slot of the doctor with doctor_id at time_point holds the patient.
HeldByDoctor(sched, time_point, doctor_id, patient) ==
    \E i \in 1..Len(SlotsAt(sched, time_point)) :
        /\ doctor_get_id(sched[time_point][i].doctor) = doctor_id
        /\ sched[time_point][i].patient = patient

\* C2: for a registered patient whose primary doctor has an open slot at
\* time_point, book_patient succeeds and books the patient into the primary
\* doctor's slot, whatever other open slots exist and in whatever order.
C2_PrimaryDoctorFirst ==
    [][\A time_point \in Times, patient \in PatientObjs :
         ( /\ IsCall("book_patient", time_point)
           /\ call'.who = patient
           /\ Registered(patient)
           /\ HeldByDoctor(schedule, time_point,
                           get_primary_doctor(patient), None) )
         => ( /\ call'.ret = "True"
              /\ HeldByDoctor(schedule', time_point,
                              get_primary_doctor(patient), patient) )]_vars

\* The <<time_point, room>> keys of the slots that hold the patient.
BookingsOf(sched, patient) ==
    UNION {{<<date, sched[date][i].room>> :
               i \in {j \in 1..Len(sched[date]) : sched[date][j].patient = patient}} :
           date \in DOMAIN sched}

\* The time_points at or after time_point that have an open slot.
OpenDates(sched, time_point) ==
    {date \in DOMAIN sched :
        /\ time_point <= date
        /\ \E i \in 1..Len(sched[date]) : sched[date][i].patient = None}

\* C3: after cancel_appointment_doctor on a slot that held a booked, still
\* registered patient, that patient is booked in the chronologically
\* earliest open slot at or after time_point, at that slot's own time_point
\* and room, or holds no new booking if there is no such open slot.
C3_RebookedInEarliestOpenSlot ==
    [][\A time_point \in Times, doctor_id \in DoctorIds, patient \in PatientObjs :
         ( /\ IsCall("cancel_appointment_doctor", time_point)
           /\ call'.doctor_id = doctor_id
           /\ HeldByDoctor(schedule, time_point, doctor_id, patient)
           /\ Registered(patient) )
         => LET info == schedule[time_point][Min(SlotsOfDoctor(time_point, doctor_id))]
                removed == Removed(time_point, info)
                open == OpenDates(removed, time_point)
            IN  IF open = {}
                THEN BookingsOf(schedule', patient) \subseteq BookingsOf(removed, patient)
                ELSE \E i \in 1..Len(removed[Min(open)]) :
                        /\ removed[Min(open)][i].patient = None
                        /\ <<Min(open), removed[Min(open)][i].room>>
                               \in BookingsOf(schedule', patient)]_vars

\* C4: when cancel_appointment_doctor finds the doctor's slot at time_point,
\* the state after the call has no slot at time_point of that doctor and
\* the schedule has exactly one slot less than before.
C4_RemovesExactlyOneSlot ==
    [][\A time_point \in Times, doctor_id \in DoctorIds :
         ( /\ IsCall("cancel_appointment_doctor", time_point)
           /\ call'.doctor_id = doctor_id
           /\ ~_is_doc_available(schedule, time_point, doctor_id) )
         => ( /\ _is_doc_available(schedule', time_point, doctor_id)
              /\ SlotCount(schedule', DOMAIN schedule')
                    = SlotCount(schedule, DOMAIN schedule) - 1 )]_vars

\* C5: schedule_doctor_availability for a registered doctor creates the
\* open slot only if the doctor has no slot at time_point and the doctor's
\* home room is not a slot key at time_point; otherwise it fails and the
\* slots, with their booked patients, are left unchanged.
C5_RoomMustBeFree ==
    [][\A time_point \in Times, doctor_id \in DoctorIds :
         ( /\ IsCall("schedule_doctor_availability", time_point)
           /\ call'.doctor_id = doctor_id
           /\ doctor_id \in DOMAIN doctors )
         => LET free ==
                    /\ _is_doc_available(schedule, time_point, doctor_id)
                    /\ get_office(doctors[doctor_id])
                           \notin Rooms(SlotsAt(schedule, time_point))
            IN  IF free
                THEN call'.ret = "True"
                ELSE call'.ret = "False" /\ schedule' = schedule]_vars

\* C6: unless schedule_doctor_availability is called with an unregistered
\* doctor id, every operation completes with a return value; none ends in
\* a raised fault.
C6_NoRaisedFault ==
    ~(call.op = "schedule_doctor_availability" /\ call.doctor_id \notin DOMAIN doctors)
        => call.ret \in Returns

\* The operations that write to the office.
Mutating ==
    {"add_doctor", "add_patient", "schedule_doctor_availability", "book_patient",
     "cancel_appointment_patient", "cancel_appointment_doctor"}

C8_NoDoubleBooking ==
    \A time_point \in DOMAIN schedule :
        \A i, j \in 1..Len(schedule[time_point]) :
            ( /\ i # j
              /\ schedule[time_point][i].patient # None )
            => schedule[time_point][i].patient # schedule[time_point][j].patient

\* C9: book_patient returns failure and changes no slot for a patient who is
\* not in the patient registry at the time of the call.
C9_UnregisteredPatientRejected ==
    [][\A time_point \in Times, patient \in PatientObjs :
         ( /\ IsCall("book_patient", time_point)
           /\ call'.who = patient
           /\ ~Registered(patient) )
         => (call'.ret = "False" /\ schedule' = schedule)]_vars

\* C10: cancel_appointment_patient returns failure and leaves the office
\* unchanged whenever no slot at time_point is booked to the patient,
\* including when the slots at time_point are open.
C10_NothingToCancelFails ==
    [][\A time_point \in Times, patient \in PatientObjs :
         ( /\ IsCall("cancel_appointment_patient", time_point)
           /\ call'.who = patient
           /\ \A i \in 1..Len(SlotsAt(schedule, time_point)) :
                 \/ schedule[time_point][i].patient = None
                 \/ patient_get_id(schedule[time_point][i].patient)
                        # patient_get_id(patient) )
         => (call'.ret = "False" /\ SameOffice)]_vars

\* C11: a successful cancel_appointment_patient(time_point, patient) changes
\* exactly one slot of the table, a slot at time_point that was booked to the
\* patient: the slot stays in the table, at its place, as an open slot with
\* the same doctor and room; and the call increases that patient's
\* cancellation count, and no other count, by exactly 1.
C11_PatientCancelClearsOneSlot ==
    [][\A time_point \in Times, patient \in PatientObjs :
         ( /\ IsCall("cancel_appointment_patient", time_point)
           /\ call'.who = patient
           /\ call'.ret = "True" )
         => /\ time_point \in DOMAIN schedule
            /\ DOMAIN schedule' = DOMAIN schedule
            /\ \A date \in DOMAIN schedule \ {time_point} :
                  schedule'[date] = schedule[date]
            /\ Len(schedule'[time_point]) = Len(schedule[time_point])
            /\ \E i \in 1..Len(schedule[time_point]) :
                  /\ schedule[time_point][i].patient = patient
                  /\ schedule'[time_point][i] =
                        Slot(schedule[time_point][i].room,
                             schedule[time_point][i].doctor, None)
                  /\ \A j \in 1..Len(schedule[time_point]) :
                        j # i => schedule'[time_point][j] = schedule[time_point][j]
            /\ cancellations' = [cancellations EXCEPT ![patient] = @ + 1]]_vars

\* C11 witness: a patient's cancellation has returned True at a time_point
\* with two slots, where the patient's slot is now open, the other slot is
\* still booked and the patient has one cancellation.
C11_Witness ==
    /\ call.op = "cancel_appointment_patient"
    /\ call.ret = "True"
    /\ get_cancellation_num(call.who) = 1
    /\ Len(SlotsAt(schedule, call.time_point)) = 2
    /\ \E i, j \in 1..2 :
          /\ schedule[call.time_point][i].patient = None
          /\ schedule[call.time_point][j].patient \notin {None, call.who}

\* C12: when a cancel_appointment_patient call brings a booked patient's
\* cancellation count to exactly 10, the call succeeds, the patient's id is
\* not in the patient registry afterwards and the slot the patient held is
\* open; a cancellation that brings the count to another number leaves the
\* registry unchanged.
C12_TenthCancellationRemoves ==
    [][\A time_point \in Times, patient \in PatientObjs :
         ( /\ IsCall("cancel_appointment_patient", time_point)
           /\ call'.who = patient
           /\ cancellations'[patient] = cancellations[patient] + 1 )
         => IF cancellations'[patient] = CancellationLimit
            THEN /\ call'.ret = "True"
                 /\ patient_get_id(patient) \notin DOMAIN patients'
                 /\ \E i \in 1..Len(SlotsAt(schedule, time_point)) :
                       /\ schedule[time_point][i].patient = patient
                       /\ schedule'[time_point][i].patient = None
            ELSE patients' = patients]_vars

\* C13: in every reachable state the schedule has no time_point key whose
\* bucket is empty, also after a failed schedule_doctor_availability and
\* after cancel_appointment_doctor has removed the last slot at a time_point.
C13_NoEmptyBucket ==
    \A time_point \in DOMAIN schedule : Len(schedule[time_point]) > 0

\* C13 witness: cancel_appointment_doctor has removed the last slot at its
\* time_point (the rebooking that followed raised, which it does only once
\* the slot is removed and a later time_point has an open slot) and the key
\* is gone while the schedule has other keys.
C13_Witness ==
    /\ call.op = "cancel_appointment_doctor"
    /\ call.ret \in Faults
    /\ call.time_point \notin DOMAIN schedule
    /\ schedule # << >>

\* C14: for every registered doctor and time_point, in the state right after
\* schedule_doctor_availability(time_point, doctor_id) has returned True the
\* availability check for that doctor at that time_point is false; and a
\* schedule_doctor_availability call for a registered doctor made while the
\* check is false, as the identical call repeated next is, returns False and
\* leaves the schedule unchanged.
C14_ScheduledTwiceFails ==
    /\ [](\A time_point \in Times, doctor_id \in DoctorIds :
            ( /\ call.op = "schedule_doctor_availability"
              /\ call.time_point = time_point
              /\ call.doctor_id = doctor_id
              /\ call.ret = "True" )
            => ~_is_doc_available(schedule, time_point, doctor_id))
    /\ [][\A time_point \in Times, doctor_id \in DoctorIds :
            ( /\ IsCall("schedule_doctor_availability", time_point)
              /\ call'.doctor_id = doctor_id
              /\ doctor_id \in DOMAIN doctors
              /\ ~_is_doc_available(schedule, time_point, doctor_id) )
            => (call'.ret = "False" /\ schedule' = schedule)]_vars

\* C14 witness: schedule_doctor_availability has returned False for a doctor
\* whose slot at the time_point, the second of two, is open as the first
\* call left it.
C14_Witness ==
    /\ call.op = "schedule_doctor_availability"
    /\ call.ret = "False"
    /\ Len(SlotsAt(schedule, call.time_point)) = 2
    /\ schedule[call.time_point][2] =
          Slot(get_office(doctors[call.doctor_id]), doctors[call.doctor_id], None)

\* C15: add_doctor (add_patient) returns True and stores the object under
\* its id if and only if no doctor (patient) with that id is in the registry
\* at the call; otherwise it returns False and the registry, with the entry
\* already stored under that id, is unchanged.
C15_AddOnlyNewId ==
    [][/\ \A doctor \in DoctorObjs :
            (call'.op = "add_doctor" /\ call'.who = doctor)
            => IF doctor_get_id(doctor) \notin DOMAIN doctors
               THEN /\ call'.ret = "True"
                    /\ DOMAIN doctors' = DOMAIN doctors \cup {doctor_get_id(doctor)}
                    /\ doctors'[doctor_get_id(doctor)] = doctor
                    /\ \A ids \in DOMAIN doctors : doctors'[ids] = doctors[ids]
               ELSE /\ call'.ret = "False"
                    /\ doctors' = doctors
       /\ \A patient \in PatientObjs :
            (call'.op = "add_patient" /\ call'.who = patient)
            => IF patient_get_id(patient) \notin DOMAIN patients
               THEN /\ call'.ret = "True"
                    /\ DOMAIN patients' = DOMAIN patients \cup {patient_get_id(patient)}
                    /\ patients'[patient_get_id(patient)] = patient
                    /\ \A ids \in DOMAIN patients : patients'[ids] = patients[ids]
               ELSE /\ call'.ret = "False"
                    /\ patients' = patients]_vars

\* C15 witness: add_doctor has returned False for a Doctor object whose id
\* is held by another Doctor object, which is still the one registered.
C15_Witness ==
    /\ call.op = "add_doctor"
    /\ call.ret = "False"
    /\ doctor_get_id(call.who) \in DOMAIN doctors
    /\ doctors[doctor_get_id(call.who)] # call.who

\* The positions of the open slots at time_point.
OpenSlots(sched, time_point) ==
    {i \in 1..Len(SlotsAt(sched, time_point)) : sched[time_point][i].patient = None}

\* C16: book_patient(time_point, patient) returns False and changes nothing
\* when time_point has no slots or every slot at time_point has a patient;
\* it returns True only when some slot at time_point was open before the
\* call, and then exactly one slot that was open is booked to the patient,
\* with its doctor and room, and every other slot is unchanged.
C16_BooksOneOpenSlot ==
    [][\A time_point \in Times, patient \in PatientObjs :
         (IsCall("book_patient", time_point) /\ call'.who = patient)
         => /\ OpenSlots(schedule, time_point) = {}
                  => (call'.ret = "False" /\ SameOffice)
            /\ call'.ret = "True"
                  => /\ DOMAIN schedule' = DOMAIN schedule
                     /\ \A date \in DOMAIN schedule \ {time_point} :
                           schedule'[date] = schedule[date]
                     /\ Len(schedule'[time_point]) = Len(schedule[time_point])
                     /\ \E i \in OpenSlots(schedule, time_point) :
                           /\ schedule'[time_point][i] =
                                 Slot(schedule[time_point][i].room,
                                      schedule[time_point][i].doctor, patient)
                           /\ \A j \in 1..Len(schedule[time_point]) :
                                 j # i => schedule'[time_point][j]
                                             = schedule[time_point][j]
                     /\ UNCHANGED <<doctors, patients, cancellations>>]_vars

\* C16 witness: book_patient has returned True at a time_point with two
\* slots, of which one is booked to the patient and the other is still open.
C16_Witness ==
    /\ call.op = "book_patient"
    /\ call.ret = "True"
    /\ Len(SlotsAt(schedule, call.time_point)) = 2
    /\ \E i, j \in 1..2 :
          /\ schedule[call.time_point][i].patient = call.who
          /\ schedule[call.time_point][j].patient = None

\* C17: when cancel_appointment_doctor has removed the doctor's slot, its
\* rebooking returns False and books the slot's patient into no slot (the
\* schedule is the one the removal left) if no time_point at or after the
\* cancelled one has an open slot, or if the slot's patient is not in the
\* patient registry, as after the removal at 10 cancellations, whatever
\* open slots there are.
C17_RebookingFails ==
    [][\A time_point \in Times, doctor_id \in DoctorIds :
         ( /\ IsCall("cancel_appointment_doctor", time_point)
           /\ call'.doctor_id = doctor_id
           /\ ~_is_doc_available(schedule, time_point, doctor_id) )
         => LET info == schedule[time_point][Min(SlotsOfDoctor(time_point, doctor_id))]
                removed == Removed(time_point, info)
            IN  ( \/ OpenDates(removed, time_point) = {}
                  \/ /\ info.patient # None
                     /\ ~Registered(info.patient) )
                => (call'.ret = "False" /\ schedule' = removed)]_vars

\* C17 witness: cancel_appointment_doctor has returned False although a
\* time_point at or after the cancelled one has an open slot, which happens
\* for a patient outside the registry only; a patient with 10 cancellations
\* is outside the registry and holds no slot.
C17_Witness ==
    /\ call.op = "cancel_appointment_doctor"
    /\ call.ret = "False"
    /\ OpenDates(schedule, call.time_point) # {}
    /\ \E patient \in PatientObjs :
          /\ get_cancellation_num(patient) = CancellationLimit
          /\ ~Registered(patient)
          /\ BookingsOf(schedule, patient) = {}

\* C18: appointments_at(time_point) returns a list with exactly one record
\* for every slot at time_point, booked or open, where the record of an open
\* slot has an empty patient field; the list is empty if and only if
\* time_point has no slots.  (The call leaves the schedule as it is, so the
\* slots are those of the state the call ends in.)
C18_OneRecordPerSlot ==
    call.op = "appointments_at"
    => LET bucket == SlotsAt(schedule, call.time_point)
       IN  /\ call.ret = "list"
           /\ Len(call.value) = Len(bucket)
           /\ \A i \in 1..Len(bucket) :
                 \E k \in 1..Len(call.value) :
                    /\ call.value[k].Room = bucket[i].room
                    /\ call.value[k].Patient =
                          IF bucket[i].patient = None
                          THEN None
                          ELSE Patient_name(bucket[i].patient)
           /\ (call.value = << >>) <=> (bucket = << >>)

\* Every slot of the schedule is booked.
AllBooked ==
    \A date \in DOMAIN schedule :
        \A i \in 1..Len(schedule[date]) : schedule[date][i].patient # None

\* The time_point a record's 'Date' and 'Time' stand for.
TimePointOf(appointment) == appointment.Date[2] * 24 + appointment.Time[1]

\* C19: for a schedule in which every slot is booked, to_schedule_list()
\* without a week returns one record for every slot, ordered by time_point
\* ascending and, at the same time_point, by room name ascending; and
\* appointments_at(time_point) returns one record for every slot at
\* time_point in ascending room order, no two records with the same room.
\* (Neither call changes the schedule, so the slots are those of the state
\* the call ends in.)
C19_ListsAreOrdered ==
    AllBooked
    => /\ (call.op = "to_schedule_list" /\ call.week = << >>)
          => /\ call.ret = "list"
             /\ Len(call.value) = SlotCount(schedule, DOMAIN schedule)
             /\ \A date \in DOMAIN schedule :
                   \A i \in 1..Len(schedule[date]) :
                      \E k \in 1..Len(call.value) :
                         /\ TimePointOf(call.value[k]) = date
                         /\ call.value[k].Room = schedule[date][i].room
             /\ \A k, l \in 1..Len(call.value) :
                   k < l
                   => \/ TimePointOf(call.value[k]) < TimePointOf(call.value[l])
                      \/ /\ TimePointOf(call.value[k]) = TimePointOf(call.value[l])
                         /\ RoomLess(call.value[k].Room, call.value[l].Room)
       /\ call.op = "appointments_at"
          => /\ call.ret = "list"
             /\ Len(call.value) = Len(SlotsAt(schedule, call.time_point))
             /\ \A k \in 1..Len(call.value) :
                   /\ TimePointOf(call.value[k]) = call.time_point
                   /\ call.value[k].Room \in Rooms(schedule[call.time_point])
             /\ \A k, l \in 1..Len(call.value) :
                   k < l => RoomLess(call.value[k].Room, call.value[l].Room)

\* C19 witness: to_schedule_list() without a week has returned the records
\* of two time_points, all slots booked, where a time_point holds room A11
\* before room A10 in its table.
C19_Witness ==
    /\ AllBooked
    /\ call.op = "to_schedule_list"
    /\ call.week = << >>
    /\ call.ret = "list"
    /\ Len(call.value) >= 3
    /\ \E date \in DOMAIN schedule :
          /\ Len(schedule[date]) = 2
          /\ schedule[date][1].room = "A11"

SlotTriples(sched) ==
    UNION {{<<date, sched[date][i].room, sched[date][i].doctor>> :
               i \in 1..Len(sched[date])} : date \in DOMAIN sched}

\* C21: cancel_appointment_patient never changes the doctors' slot
\* allocation: after any call, whether it returned True, returned False or
\* raised, the set of (time_point, room, doctor) triples of the schedule and
\* the doctor registry are as before, and the bookings and the cancellation
\* count of every other patient are unchanged.
C21_PatientCancelKeepsSlots ==
    [][\A patient \in PatientObjs :
         (call'.op = "cancel_appointment_patient" /\ call'.who = patient)
         => /\ SlotTriples(schedule') = SlotTriples(schedule)
            /\ doctors' = doctors
            /\ \A other \in PatientObjs \ {patient} :
                  /\ BookingsOf(schedule', other) = BookingsOf(schedule, other)
                  /\ cancellations'[other] = cancellations[other]]_vars

\* C21 witness: a patient's cancellation has returned True while the other
\* patient, who has not cancelled, holds a slot at another time_point.
C21_Witness ==
    /\ call.op = "cancel_appointment_patient"
    /\ call.ret = "True"
    /\ \E other \in PatientObjs \ {call.who} :
          /\ get_cancellation_num(other) = 0
          /\ \E booking \in BookingsOf(schedule, other) :
                booking[1] # call.time_point

\* C22: a booked patient is never silently displaced: a patient booked in
\* the slot (time_point, room) is still booked in it after every step,
\* unless the step is a cancel_appointment_patient(time_point, patient) that
\* returns True or a cancel_appointment_doctor for that slot's doctor at
\* time_point; no schedule_doctor_availability, book_patient or cancellation
\* of another slot or doctor overwrites or removes the booking.
C22_NeverDisplaced ==
    [][\A patient \in PatientObjs :
         \A booking \in BookingsOf(schedule, patient) :
            LET time_point == booking[1]
                info == schedule[time_point][IndexOf(schedule[time_point],
                                                     booking[2])]
            IN  \/ booking \in BookingsOf(schedule', patient)
                \/ /\ IsCall("cancel_appointment_patient", time_point)
                   /\ call'.who = patient
                   /\ call'.ret = "True"
                \/ /\ IsCall("cancel_appointment_doctor", time_point)
                   /\ call'.doctor_id = doctor_get_id(info.doctor)]_vars

\* The <<time_point, doctor id>> pairs of the slots of a schedule.
DoctorSlots(sched) ==
    {<<triple[1], doctor_get_id(triple[3])>> : triple \in SlotTriples(sched)}

\* C23: a slot of doctor d exists at time_point t only if
\* schedule_doctor_availability(t, d) succeeded earlier and
\* cancel_appointment_doctor has not removed d's slot at t since.  Step by
\* step: a successful schedule_doctor_availability(t, d) adds at most the
\* pair (t, d) to the slots, after a cancel_appointment_doctor that found
\* d's slot at t no slot of d is at t, and no step adds any other pair.
C23_SlotsOnlyFromAvailability ==
    [][LET opened ==
               IF call'.op = "schedule_doctor_availability" /\ call'.ret = "True"
               THEN {<<call'.time_point, call'.doctor_id>>}
               ELSE {}
           removed ==
               IF call'.op = "cancel_appointment_doctor"
               THEN {<<call'.time_point, call'.doctor_id>>}
               ELSE {}
       IN  DoctorSlots(schedule')
              \subseteq (DoctorSlots(schedule) \cup opened) \ removed]_vars

\* The caller takes the outcome of the call.
Return ==
    /\ ~Ready
    /\ call' = NoCall
    /\ UNCHANGED <<doctors, patients, schedule, cancellations>>

Next ==
    \/ \E doctor \in DoctorObjs : add_doctor(doctor)
    \/ \E patient \in PatientObjs : add_patient(patient)
    \/ \E time_point \in Times, doctor_id \in DoctorIds :
          schedule_doctor_availability(time_point, doctor_id)
    \/ \E time_point \in Times, patient \in PatientObjs :
          book_patient(time_point, patient)
    \/ \E time_point \in Times, patient \in PatientObjs :
          cancel_appointment_patient(time_point, patient)
    \/ \E time_point \in Times, doctor \in DoctorObjs :
          cancel_appointment_doctor(time_point, doctor)
    \/ \E time_point \in Times : appointments_at(time_point)
    \/ \E week \in Weeks : to_schedule_list(week)
    \/ Return

Spec == Init /\ [][Next]_vars

\* The office used by patients who have cancelled before.
SpecNearLimit == InitNearLimit /\ [][Next]_vars

====
